---- MODULE Spec2Model ----
(***************************************************************************)
(* A model of server/main.py: the BIO window decoder (decode_chunk), the   *)
(* long-text chunker and the span merger (detect).                         *)
(*                                                                         *)
(* Conventions.  Probabilities and thresholds are integers in percent      *)
(* (0.65 is 65).  A text is a sequence of one-character strings; offsets   *)
(* are 0-based and half-open as in Python, Slice(t, a, b) is t[a:b].  The  *)
(* tokenizer and the model are external: the tokenizer is modelled as a    *)
(* whitespace-splitting tokenizer that cuts every word into pieces of tokw *)
(* characters and wraps the result in two special (0,0) tokens; the model  *)
(* is an oracle that may give any label and confidence to any token of any *)
(* window.  The character window of 2000 is scaled down to CHUNK.          *)
(***************************************************************************)
EXTENDS Integers, Sequences, FiniteSets, TLC

VARIABLES
    text,                 \* the request's text
    threshold,            \* the request's default threshold (percent)
    per_label_threshold,  \* the request's per-type overrides (a function)
    max_len,              \* the request's token budget
    stride_chars,         \* the request's character overlap
    tokw,                 \* the tokenizer's piece width
    pc,                   \* position in detect / decode_chunk
    i,                    \* detect: start of the next window
    spans_all,            \* detect: the spans of the windows decoded so far
    enc,                  \* decode_chunk: the tokens (offsets, label, p) decoded last
    result,               \* the list returned
    path,                 \* "none", "fast" or "chunked"
    allO,                 \* history: every content token so far was labelled O
    ent,                  \* hypothesis: the entity the model labels (SpecEntity)
    calls,                \* history: the decode_chunk calls and merges, in order
    seen,                 \* history: the qualifying content tokens, absolute offsets
    decoded,              \* history: the characters of the content tokens decoded
    env,                  \* startup: what the model folder holds
    labels,               \* LABELS, the vocabulary loaded at startup
    tokcfg,               \* tok: the truncation the shared tokenizer was last called with
    peer                  \* a second request in flight, while it is not running

vars == <<text, threshold, per_label_threshold, max_len, stride_chars, tokw,
          pc, i, spans_all, enc, result, path, allO, ent, calls, seen,
          decoded, env, labels, tokcfg, peer>>

(***************************************************************************)
(* Bounds of the model and constants of the program.                       *)
(***************************************************************************)
CHUNK == 5
ADDR_FLOOR == 70
MaxTokens == 4
MaxToks == 3
MaxSpans == 3

Min(a, b) == IF a < b THEN a ELSE b
Max(a, b) == IF a > b THEN a ELSE b

\* Python's t[a:b] for 0 <= a, with b clamped to len(t).
Slice(t, a, b) ==
    LET hi == Min(b, Len(t))
    IN  IF a >= hi THEN <<>> ELSE SubSeq(t, a + 1, hi)

\* dict.get(k, d)
Get(m, k, d) == IF k \in DOMAIN m THEN m[k] ELSE d

\* dict.update: the entries of b over those of a
Update(a, b) ==
    [k \in DOMAIN a \cup DOMAIN b |-> IF k \in DOMAIN b THEN b[k] ELSE a[k]]

EmptyMap == [k \in {} |-> 0]

(***************************************************************************)
(* The label vocabulary (the fallback of the startup code).                *)
(***************************************************************************)
LABELS == <<"O", "B-NAME", "I-NAME", "B-ADDR", "I-ADDR">>

LabelSet == {LABELS[k] : k \in 1..Len(LABELS)}

\* A vocabulary read from config.json's id2label (lines 25-29): one that also
\* holds an organization type.
ConfigLabels ==
    <<"O", "B-NAME", "I-NAME", "B-ADDR", "I-ADDR", "B-ORG", "I-ORG">>

\* lab.split("-", 1)[1] if "-" in lab else lab
TypOf(lab) ==
    CASE lab \in {"B-NAME", "I-NAME"} -> "NAME"
      [] lab \in {"B-ADDR", "I-ADDR"} -> "ADDR"
      [] lab \in {"B-ORG", "I-ORG"} -> "ORG"
      [] OTHER -> lab

\* lab.startswith("B-")
StartsWithB(lab) == lab \in {"B-NAME", "B-ADDR", "B-ORG"}

Types == {"NAME", "ADDR"}

(***************************************************************************)
(* decode_chunk, lines 70-109: the loop over the tokens.  The state of the *)
(* loop is [cur, spans]; cur is NoSpan (None) or the open span.            *)
(***************************************************************************)
NoSpan == [start |-> -1, end |-> -1, label |-> "", score |-> 0]

\* The span a qualifying token opens (line 99).
NewCur(t) == [start |-> t.s, end |-> t.e, label |-> TypOf(t.lab), score |-> t.p]

\* Mutant of Extend: the latest token's end and confidence are kept.
ExtendLatest(cur, t) == [cur EXCEPT !.end = t.e, !.score = t.p]

\* Mutant of Extend: the end is taken as inclusive and moved one further.
ExtendByOne(cur, t) ==
    [cur EXCEPT !.end = Max(cur.end, t.e) + 1, !.score = Max(cur.score, t.p)]

\* The open span extended by a token (lines 101-102).
Extend(cur, t) ==
    [cur EXCEPT !.end = Max(cur.end, t.e), !.score = Max(cur.score, t.p)]

\* if cur: spans.append(cur); cur = None
CloseCur(st) ==
    IF st.cur = NoSpan THEN st
    ELSE [cur |-> NoSpan, spans |-> Append(st.spans, st.cur)]

\* Mutant of Skipped: only a token that ends before it starts is skipped.
SkippedNegative(t) == t.e < t.s

\* (s == 0 and e == 0) or e <= s
Skipped(t) == (t.s = 0 /\ t.e = 0) \/ t.e <= t.s

\* Mutant of Qualifies: the default threshold gates every type.
QualifiesDefault(t, thr, per_type) == ~(t.p < thr)

\* p >= thr, with thr = per_type.get(typ, threshold)
Qualifies(t, thr, per_type) == ~(t.p < Get(per_type, TypOf(t.lab), thr))

\* Mutant of StartNew: a change of type does not start a span.
StartNewNoType(cur, t) == cur = NoSpan \/ StartsWithB(t.lab)

\* Mutant of StartNew: a B- label of the open span's type does not start a span.
StartNewNoB(cur, t) == cur = NoSpan \/ TypOf(t.lab) # cur.label

\* start_new (line 95)
StartNew(cur, t) ==
    cur = NoSpan \/ TypOf(t.lab) # cur.label \/ StartsWithB(t.lab)

\* Mutant of DecodeStep: a skipped token closes the open span.
DecodeStepSkipCloses(st, t, thr, per_type) ==
    IF Skipped(t) THEN CloseCur(st)
    ELSE IF t.lab = "O" THEN CloseCur(st)
    ELSE IF ~Qualifies(t, thr, per_type) THEN CloseCur(st)
    ELSE IF StartNew(st.cur, t)
         THEN [cur |-> NewCur(t), spans |-> CloseCur(st).spans]
         ELSE [cur |-> Extend(st.cur, t), spans |-> st.spans]

\* One iteration of the loop (lines 75-102).
DecodeStep(st, t, thr, per_type) ==
    IF Skipped(t) THEN st
    ELSE IF t.lab = "O" THEN CloseCur(st)
    ELSE IF ~Qualifies(t, thr, per_type) THEN CloseCur(st)
    ELSE IF StartNew(st.cur, t)
         THEN [cur |-> NewCur(t), spans |-> CloseCur(st).spans]
         ELSE [cur |-> Extend(st.cur, t), spans |-> st.spans]

RECURSIVE DecodeLoop(_, _, _, _)
DecodeLoop(st, toks, thr, per_type) ==
    IF toks = <<>> THEN st
    ELSE DecodeLoop(DecodeStep(st, Head(toks), thr, per_type),
                    Tail(toks), thr, per_type)

\* s["text"] = text[s["start"]:s["end"]]
WithText(sp, t) ==
    [start |-> sp.start, end |-> sp.end, label |-> sp.label,
     score |-> sp.score, text |-> Slice(t, sp.start, sp.end)]

\* decode_chunk on the tokens the tokenizer and the model returned for piece.
DecodeTokens(piece, toks, thr, per_type) ==
    LET st == CloseCur(DecodeLoop([cur |-> NoSpan, spans |-> <<>>],
                                  toks, thr, per_type))
    IN  [k \in 1..Len(st.spans) |-> WithText(st.spans[k], piece)]

(***************************************************************************)
(* The tokenizer (external): tok(piece, truncation=True, max_length=m).    *)
(* Content tokens are the pieces of w characters of each whitespace-free   *)
(* word; [CLS] and [SEP] carry the offsets (0,0); truncation keeps at most *)
(* m tokens, the two special ones included.                                *)
(***************************************************************************)
Special == [s |-> 0, e |-> 0]

RECURSIVE WordEnd(_, _)
WordEnd(piece, pos) ==
    IF pos >= Len(piece) \/ piece[pos + 1] = " " THEN pos
    ELSE WordEnd(piece, pos + 1)

RECURSIVE ContentOffsets(_, _, _)
ContentOffsets(piece, pos, w) ==
    IF pos >= Len(piece) THEN <<>>
    ELSE IF piece[pos + 1] = " " THEN ContentOffsets(piece, pos + 1, w)
    ELSE LET e == Min(pos + w, WordEnd(piece, pos))
         IN  <<[s |-> pos, e |-> e]>> \o ContentOffsets(piece, e, w)

\* Mutant of TokenCount: the special tokens are not counted.
TokenCountContent(t, w) == Len(ContentOffsets(t, 0, w))

\* len(tok(text)["input_ids"]): no truncation
TokenCount(t, w) == Len(ContentOffsets(t, 0, w)) + 2

\* The content tokens left by truncation=True, max_length=m.
Truncated(piece, m, w) ==
    LET c == ContentOffsets(piece, 0, w)
    IN  SubSeq(c, 1, Min(Len(c), Max(m - 2, 0)))

\* The lengths the tokenizer may truncate to for max_length=m.  Below the two
\* special tokens the source does not decide what it does: it raises (the
\* action TokenizerError), keeps the special tokens only, or does not truncate.
TruncationLengths(m) == IF m < 2 THEN {m, CHUNK + 2} ELSE {m}

\* enc["offset_mapping"][0]
OffsetMapping(piece, m, w) == <<Special>> \o Truncated(piece, m, w) \o <<Special>>

(***************************************************************************)
(* The model (external): sess.run, softmax, argmax give every token a      *)
(* label and the probability of that label.                                *)
(***************************************************************************)
\* The prediction drawn for the special tokens of a window of detect.
SpecialPreds == {[lab |-> "B-NAME", p |-> 90]}

\* The predictions drawn for the content tokens of a window of detect: every
\* label, NAME at two confidences, one prediction below the ADDR floor.
WindowPreds ==
    {[lab |-> "O", p |-> 90], [lab |-> "B-NAME", p |-> 90],
     [lab |-> "I-NAME", p |-> 68], [lab |-> "B-ADDR", p |-> 90],
     [lab |-> "I-ADDR", p |-> 90], [lab |-> "I-ADDR", p |-> 68]}

Tok(off, pr) == [s |-> off.s, e |-> off.e, lab |-> pr.lab, p |-> pr.p]

\* The tokens of one decode_chunk call: offsets offs, the content tokens
\* labelled by c, the special tokens by sp.
Encode(offs, c, sp) ==
    [k \in 1..Len(offs) |->
        IF k = 1 \/ k = Len(offs) THEN Tok(offs[k], sp)
        ELSE Tok(offs[k], c[k - 1])]

\* A content token: its offsets are not (0,0) and not empty.
ContentTok(t) == t.s < t.e

AllLabelledO(toks) ==
    \A k \in 1..Len(toks) : ContentTok(toks[k]) => toks[k].lab = "O"

\* The content tokens of a window at offset off that pass lines 77-93: not
\* skipped, not O, at or above the threshold of their type.
QualifyingTokens(toks, off, thr, per_type) ==
    {[s |-> toks[k].s + off, e |-> toks[k].e + off, typ |-> TypOf(toks[k].lab)] :
        k \in {j \in 1..Len(toks) :
                  /\ ContentTok(toks[j])
                  /\ toks[j].lab # "O"
                  /\ toks[j].p >= Get(per_type, TypOf(toks[j].lab), thr)}}

\* The characters of the text under the content tokens of a window at off.
DecodedChars(toks, off) ==
    UNION {(toks[k].s + off)..(toks[k].e + off - 1) :
              k \in {j \in 1..Len(toks) : ContentTok(toks[j])}}

\* A call of decode_chunk on the len characters from at; a run of the merge.
DecodeCall(at, len) == [op |-> "decode", at |-> at, len |-> len]

MergeCall(n) == [op |-> "merge", at |-> 0, len |-> n]

(***************************************************************************)
(* detect, lines 111-152.                                                  *)
(***************************************************************************)
\* Mutant of PerType: the floor is applied after the caller's overrides.
PerTypeFloorLast(thr, plt) ==
    LET base == [k \in {"NAME", "ADDR"} |-> thr]
        m == IF DOMAIN plt # {} THEN Update(base, plt) ELSE base
    IN  [m EXCEPT !["ADDR"] = Max(m["ADDR"], ADDR_FLOOR)]

\* lines 114-116: the effective threshold map
PerType(thr, plt) ==
    LET base == [k \in {"NAME", "ADDR"} |->
                    IF k = "NAME" THEN thr ELSE Max(thr, ADDR_FLOOR)]
    IN  IF DOMAIN plt # {} THEN Update(base, plt) ELSE base

\* Mutant of Shift: the end is left at its offset in the window.
ShiftStartOnly(sp, off, t) ==
    [start |-> sp.start + off, end |-> sp.end, label |-> sp.label,
     score |-> sp.score, text |-> Slice(t, sp.start + off, sp.end)]

\* lines 130-133: a window's span moved to absolute offsets
Shift(sp, off, t) ==
    [start |-> sp.start + off, end |-> sp.end + off, label |-> sp.label,
     score |-> sp.score, text |-> Slice(t, sp.start + off, sp.end + off)]

\* Mutant of Step: the step is not clamped to 1.
StepUnclamped(stride) == CHUNK - stride

\* line 135
Step(stride) == Max(CHUNK - stride, 1)

\* The key of line 139, (start, end), compared as Python compares tuples.
KeyLess(a, b) == a.start < b.start \/ (a.start = b.start /\ a.end < b.end)

\* list.sort is stable: x goes before the first element with a greater key.
RECURSIVE InsertSorted(_, _)
InsertSorted(L, x) ==
    IF L = <<>> THEN <<x>>
    ELSE IF KeyLess(x, Head(L)) THEN <<x>> \o L
    ELSE <<Head(L)>> \o InsertSorted(Tail(L), x)

\* Mutant of SortSpans: the combined list is left in the windows' order.
SortSpansNone(L) == L

RECURSIVE SortSpans(_)
SortSpans(L) ==
    IF L = <<>> THEN <<>>
    ELSE InsertSorted(SortSpans(SubSeq(L, 1, Len(L) - 1)), L[Len(L)])

\* Mutant of Mergeable: the labels are not compared.
MergeableAnyLabel(m, s) == s.start <= m.end

\* Mutant of Mergeable: spans that only touch are not merged.
MergeableStrict(m, s) == s.label = m.label /\ s.start < m.end

\* line 146
Mergeable(m, s) == s.label = m.label /\ s.start <= m.end

\* Mutant of Absorb: the end is overwritten by the absorbed span's end.
AbsorbLatest(m, s, t) ==
    [start |-> m.start, end |-> s.end, label |-> m.label,
     score |-> Max(m.score, s.score), text |-> Slice(t, m.start, s.end)]

\* Mutant of Absorb: the text is not recomputed after the end has moved.
AbsorbStaleText(m, s, t) ==
    [start |-> m.start, end |-> Max(m.end, s.end), label |-> m.label,
     score |-> Max(m.score, s.score), text |-> m.text]

\* lines 147-149
Absorb(m, s, t) ==
    [start |-> m.start, end |-> Max(m.end, s.end), label |-> m.label,
     score |-> Max(m.score, s.score),
     text |-> Slice(t, m.start, Max(m.end, s.end))]

\* lines 141-151, one iteration
MergeStep(merged, s, t) ==
    IF merged = <<>> THEN <<s>>
    ELSE LET m == merged[Len(merged)]
         IN  IF Mergeable(m, s)
             THEN [merged EXCEPT ![Len(merged)] = Absorb(m, s, t)]
             ELSE Append(merged, s)

RECURSIVE MergeLoop(_, _, _)
MergeLoop(merged, L, t) ==
    IF L = <<>> THEN merged
    ELSE MergeLoop(MergeStep(merged, Head(L), t), Tail(L), t)

\* lines 139-152: the Span Merger
Merger(t, L) == MergeLoop(<<>>, SortSpans(L), t)

(***************************************************************************)
(* The state the requests share: what startup found and loaded (lines      *)
(* 11-38) and the module-level tokenizer tok (line 33), which every call   *)
(* hands its truncation arguments: none at line 119, truncation=True with  *)
(* max_length=max_len at lines 48-54.                                      *)
(***************************************************************************)
\* A model folder that holds everything, with a mapping for id2label.
ServingEnv ==
    [folder |-> TRUE, onnx |-> "ok", config |-> "ok", id2label |-> "dict",
     tokenizer |-> TRUE]

NoTruncation == [on |-> FALSE, max |-> 0]

Truncation(m) == [on |-> TRUE, max |-> m]

\* No second request.
NoPeer == [pc |-> "none"]

(***************************************************************************)
(* The requests of the model.                                              *)
(***************************************************************************)
BaseTexts == {<<"a", "b", "c", "d", "e">>, <<"a", "b", " ", "c", "d">>}
Texts == UNION {{SubSeq(b, 1, n) : n \in 0..Len(b)} : b \in BaseTexts}
Thresholds == {65}
Overrides == {EmptyMap}
MaxLens == {3, 4}
Strides == {3, 4}
TokWidths == {1, 2}

\* No entity hypothesis.
NoEnt == [s |-> -1, e |-> -1, typ |-> ""]

\* The tokens of one decode_chunk call on piece, for every labelling.
Encodings(piece, m, w) ==
    LET offs == OffsetMapping(piece, m, w)
    IN  {Encode(offs, c, sp) : c \in [1..(Len(offs) - 2) -> WindowPreds],
                               sp \in SpecialPreds}

Init ==
    /\ tokw \in TokWidths
    /\ text \in {t \in Texts : TokenCount(t, tokw) <= MaxTokens + 2}
    /\ threshold \in Thresholds
    /\ per_label_threshold \in Overrides
    /\ max_len \in MaxLens
    /\ stride_chars \in Strides
    /\ pc = "start"
    /\ i = 0
    /\ spans_all = <<>>
    /\ enc = <<>>
    /\ result = <<>>
    /\ path = "none"
    /\ allO = TRUE
    /\ ent = NoEnt
    /\ calls = <<>>
    /\ seen = {}
    /\ decoded = {}
    /\ env = ServingEnv
    /\ labels = LABELS
    /\ tokcfg = NoTruncation
    /\ peer = NoPeer

\* lines 119-120: the fast path
FastPath ==
    /\ pc = "start"
    /\ TokenCount(text, tokw) <= max_len
    /\ \E toks \in Encodings(text, max_len, tokw) :
          /\ result' = DecodeTokens(text, toks, threshold,
                                    PerType(threshold, per_label_threshold))
          /\ allO' = (allO /\ AllLabelledO(toks))
          /\ seen' = seen \cup QualifyingTokens(toks, 0, threshold,
                                    PerType(threshold, per_label_threshold))
          /\ decoded' = decoded \cup DecodedChars(toks, 0)
    /\ calls' = Append(calls, DecodeCall(0, Len(text)))
    /\ tokcfg' = Truncation(max_len)
    /\ pc' = "done"
    /\ path' = "fast"
    /\ UNCHANGED <<env, labels, peer, ent, text, threshold, per_label_threshold, max_len, stride_chars,
                   tokw, i, spans_all, enc>>

\* lines 123-126: the long input enters the window loop
BeginChunked ==
    /\ pc = "start"
    /\ ~(TokenCount(text, tokw) <= max_len)
    /\ pc' = "chunk"
    /\ path' = "chunked"
    /\ i' = 0
    /\ spans_all' = <<>>
    /\ tokcfg' = NoTruncation
    /\ UNCHANGED <<env, labels, peer, ent, text, threshold, per_label_threshold,
                   max_len, stride_chars, tokw, enc, result, allO, calls, seen,
                   decoded>>

\* The labelling of a window at offset off agrees with the hypothesis en: a
\* content token inside [en.s, en.e) is a qualifying token of en's type, B- at
\* en.s and I- after it, and no other content token is a qualifying token of
\* that type.
EntityLabelled(toks, off, en, thr, per_type) ==
    \A k \in 1..Len(toks) :
        ContentTok(toks[k]) =>
            IF en.s <= toks[k].s + off /\ toks[k].e + off <= en.e
            THEN /\ TypOf(toks[k].lab) = en.typ
                 /\ toks[k].lab # "O"
                 /\ StartsWithB(toks[k].lab) = (toks[k].s + off = en.s)
                 /\ toks[k].p >= Get(per_type, en.typ, thr)
            ELSE ~(/\ TypOf(toks[k].lab) = en.typ
                   /\ toks[k].lab # "O"
                   /\ toks[k].p >= Get(per_type, en.typ, thr))

\* lines 127-136: one iteration of the window loop; with hyp the model's
\* labelling is one that agrees with the hypothesis ent.
WindowStep(hyp) ==
    /\ pc = "chunk"
    /\ i < Len(text)
    /\ LET piece == Slice(text, i, i + CHUNK)
           per_type == PerType(threshold, per_label_threshold)
       IN  \E m \in TruncationLengths(max_len) :
           \E toks \in Encodings(piece, m, tokw) :
              LET spans == DecodeTokens(piece, toks, threshold, per_type)
              IN  /\ hyp => EntityLabelled(toks, i, ent, threshold, per_type)
                  /\ spans_all' = spans_all \o
                        [k \in 1..Len(spans) |-> Shift(spans[k], i, text)]
                  /\ allO' = (allO /\ AllLabelledO(toks))
                  /\ seen' = seen \cup QualifyingTokens(toks, i, threshold, per_type)
                  /\ decoded' = decoded \cup DecodedChars(toks, i)
                  /\ calls' = Append(calls, DecodeCall(i, Len(piece)))
    /\ tokcfg' = Truncation(max_len)
    /\ i' = i + Step(stride_chars)
    /\ UNCHANGED <<env, labels, peer, ent, text, threshold, per_label_threshold, max_len,
                   stride_chars, tokw, pc, enc, result, path>>

DecodeWindow == WindowStep(FALSE)

DecodeWindowEntity == WindowStep(TRUE)

\* lines 139-152: the loop has ended; sort, merge, return
MergeSpans ==
    /\ pc = "chunk"
    /\ ~(i < Len(text))
    /\ result' = Merger(text, spans_all)
    /\ calls' = Append(calls, MergeCall(Len(spans_all)))
    /\ pc' = "done"
    /\ UNCHANGED <<env, labels, peer, ent, text, threshold, per_label_threshold,
                   max_len, stride_chars, tokw, i, spans_all, enc, path, allO,
                   seen, decoded, tokcfg>>

Next == FastPath \/ BeginChunked \/ DecodeWindow \/ MergeSpans

Spec == Init /\ [][Next]_vars

(***************************************************************************)
(* detect on a long text that holds one entity crossing the end of a       *)
(* window, no longer than the overlap of that window and the next, which   *)
(* the model labels in every window.                                       *)
(***************************************************************************)
EntityTexts ==
    {<<"a", "b", "c", " ", "d", "e", "f">>, <<"a", "b", " ", "c", "d", "e", "f">>,
     <<"a", " ", "b", " ", "c", "d", " ", "e">>, <<"a", "b", " ", "c", " ", "d", "e">>}

WindowStarts(n, stride) == {w \in 0..(n - 1) : w % Step(stride) = 0}

Entities(t, stride) ==
    {[s |-> a, e |-> b, typ |-> ty] :
        a \in 0..(Len(t) - 1), b \in 1..Len(t), ty \in Types}

CrossesWindowEnd(en, n, stride) ==
    /\ en.s < en.e
    /\ en.e - en.s <= CHUNK - Step(stride)
    /\ \E w \in WindowStarts(n, stride) : en.s < w + CHUNK /\ w + CHUNK < en.e

\* The entity is made of whole words of the text.
WordAligned(en, t) ==
    /\ en.s = 0 \/ t[en.s] = " "
    /\ en.e = Len(t) \/ t[en.e + 1] = " "
    /\ t[en.s + 1] # " "
    /\ t[en.e] # " "

InitEntity ==
    /\ tokw \in TokWidths
    /\ max_len \in MaxLens
    /\ text \in {t \in EntityTexts : TokenCount(t, tokw) > max_len}
    /\ threshold \in Thresholds
    /\ per_label_threshold \in Overrides
    /\ stride_chars \in Strides
    /\ ent \in {en \in Entities(text, stride_chars) :
                    /\ CrossesWindowEnd(en, Len(text), stride_chars)
                    /\ WordAligned(en, text)}
    /\ calls = <<>>
    /\ seen = {}
    /\ decoded = {}
    /\ env = ServingEnv
    /\ labels = LABELS
    /\ tokcfg = NoTruncation
    /\ peer = NoPeer
    /\ pc = "start"
    /\ i = 0
    /\ spans_all = <<>>
    /\ enc = <<>>
    /\ result = <<>>
    /\ path = "none"
    /\ allO = TRUE

NextEntity == BeginChunked \/ DecodeWindowEntity \/ MergeSpans

SpecEntity == InitEntity /\ [][NextEntity]_vars

(***************************************************************************)
(* The Span Merger alone: the combined list is any list of at most         *)
(* MaxSpans spans over MergeText, the window loop has ended, and           *)
(* MergeSpans runs.                                                        *)
(***************************************************************************)
MergeText == <<"a", "b", "c">>

MergeScores == {70, 75}

MergeInputSpans ==
    {[start |-> a, end |-> b, label |-> l, score |-> q,
      text |-> Slice(MergeText, a, b)] :
        a \in 0..(Len(MergeText) - 1), b \in 1..Len(MergeText),
        l \in Types, q \in MergeScores}

ValidInputSpans == {sp \in MergeInputSpans : sp.start < sp.end}

InitMerger ==
    /\ text = MergeText
    /\ threshold = 65
    /\ per_label_threshold = EmptyMap
    /\ max_len = 4
    /\ stride_chars = 2
    /\ tokw = 1
    /\ pc = "chunk"
    /\ i = Len(MergeText)
    /\ \E n \in 0..MaxSpans : spans_all \in [1..n -> ValidInputSpans]
    /\ enc = <<>>
    /\ result = <<>>
    /\ path = "chunked"
    /\ allO = (spans_all = <<>>)
    /\ ent = NoEnt
    /\ calls = <<>>
    /\ seen = {}
    /\ decoded = {}
    /\ env = ServingEnv
    /\ labels = LABELS
    /\ tokcfg = NoTruncation
    /\ peer = NoPeer

NextMerger == MergeSpans

SpecMerger == InitMerger /\ [][NextMerger]_vars

(***************************************************************************)
(* The Window Decoder alone: decode_chunk on any sequence of at most       *)
(* MaxToks tokens.  A token is special (0,0), invalid (end <= start), or a *)
(* content token of one or two characters that follows the previous one    *)
(* directly or after a gap of one character; offsets never decrease.       *)
(***************************************************************************)
DecText == <<"a", "b", "c", "d", "e", "f", "g", "h", "i", "j">>

Shapes == {"special", "invalid", "next1", "next2", "gap1"}

DecPreds ==
    {[lab |-> "O", p |-> 90],
     [lab |-> "B-NAME", p |-> 90], [lab |-> "B-NAME", p |-> 50],
     [lab |-> "I-NAME", p |-> 68], [lab |-> "I-NAME", p |-> 90],
     [lab |-> "B-ADDR", p |-> 90], [lab |-> "I-ADDR", p |-> 90],
     [lab |-> "I-ADDR", p |-> 68]}

\* The offsets of a token of shape sh when the previous content token ended
\* at pos.
OffsetOf(sh, pos) ==
    CASE sh = "special" -> [s |-> 0, e |-> 0]
      [] sh = "invalid" -> [s |-> pos + 1, e |-> pos]
      [] sh = "next1"   -> [s |-> pos, e |-> pos + 1]
      [] sh = "next2"   -> [s |-> pos, e |-> pos + 2]
      [] OTHER          -> [s |-> pos + 1, e |-> pos + 2]

RECURSIVE Place(_, _)
Place(items, pos) ==
    IF items = <<>> THEN <<>>
    ELSE LET off == OffsetOf(Head(items)[1], pos)
             nxt == IF Head(items)[1] \in {"special", "invalid"} THEN pos ELSE off.e
         IN  <<Tok(off, Head(items)[2])>> \o Place(Tail(items), nxt)

InitDecoder ==
    /\ text = DecText
    /\ threshold \in Thresholds
    /\ per_label_threshold \in Overrides
    /\ max_len = MaxToks
    /\ stride_chars = 2
    /\ tokw = 1
    /\ pc = "decode"
    /\ i = 0
    /\ spans_all = <<>>
    /\ \E n \in 0..MaxToks :
          \E items \in [1..n -> Shapes \X DecPreds] : enc = Place(items, 0)
    /\ result = <<>>
    /\ path = "none"
    /\ allO = TRUE
    /\ ent = NoEnt
    /\ calls = <<>>
    /\ seen = {}
    /\ decoded = {}
    /\ env = ServingEnv
    /\ labels = LABELS
    /\ tokcfg = NoTruncation
    /\ peer = NoPeer

\* lines 70-109: decode_chunk on the tokens of enc
DecodeChunk ==
    /\ pc = "decode"
    /\ result' = DecodeTokens(text, enc, threshold,
                              PerType(threshold, per_label_threshold))
    /\ allO' = AllLabelledO(enc)
    /\ seen' = QualifyingTokens(enc, 0, threshold,
                                PerType(threshold, per_label_threshold))
    /\ decoded' = DecodedChars(enc, 0)
    /\ calls' = Append(calls, DecodeCall(0, Len(text)))
    /\ tokcfg' = Truncation(max_len)
    /\ pc' = "done"
    /\ UNCHANGED <<env, labels, peer, ent, text, threshold, per_label_threshold, max_len, stride_chars,
                   tokw, i, spans_all, enc, path>>

NextDecoder == DecodeChunk

SpecDecoder == InitDecoder /\ [][NextDecoder]_vars

(***************************************************************************)
(* The window loop for every kind of stride: negative, zero, below CHUNK,  *)
(* equal to CHUNK and above it.                                            *)
(***************************************************************************)
LoopStrides == {-2, 0, 3, 5, 8}

\* The texts of a request with the given stride: the texts longer than a
\* window go with the strides that step past the window's end.
LoopTexts(stride) == Texts \cup (IF stride < 0 THEN EntityTexts ELSE {})

\* The token limits of a request with the given stride: two content tokens
\* to a window go with the strides that do not overlap the windows.
LoopMaxLens(stride) == IF stride <= 0 THEN {3, 4} ELSE {3}

InitLoop ==
    /\ tokw \in TokWidths
    /\ stride_chars \in LoopStrides
    /\ max_len \in LoopMaxLens(stride_chars)
    /\ text \in {t \in LoopTexts(stride_chars) : TokenCount(t, tokw) > max_len}
    /\ threshold \in Thresholds
    /\ per_label_threshold \in Overrides
    /\ pc = "start"
    /\ i = 0
    /\ spans_all = <<>>
    /\ enc = <<>>
    /\ result = <<>>
    /\ path = "none"
    /\ allO = TRUE
    /\ ent = NoEnt
    /\ calls = <<>>
    /\ seen = {}
    /\ decoded = {}
    /\ env = ServingEnv
    /\ labels = LABELS
    /\ tokcfg = NoTruncation
    /\ peer = NoPeer

NextLoop == BeginChunked \/ DecodeWindow \/ MergeSpans

SpecLoop == InitLoop /\ [][NextLoop]_vars

(***************************************************************************)
(* The endpoint: a request is validated by the request model DetectReq     *)
(* (threshold within [0, 0.99]; nothing else is constrained) and handed to *)
(* detect.  The requests include out-of-range thresholds, an out-of-range  *)
(* per-type threshold and max_len 0.                                       *)
(***************************************************************************)
ReqThresholds == {-10, 65, 120}

ReqOverrides == {EmptyMap, [k \in {"NAME"} |-> 150]}

ReqMaxLens == {0, 3}

\* Field(0.65, ge=0.0, le=0.99), line 162
ValidReq(thr) == 0 <= thr /\ thr <= 99

InitRequest ==
    /\ tokw = 2
    /\ text \in {t \in Texts : TokenCount(t, tokw) <= MaxTokens + 2}
    /\ threshold \in ReqThresholds
    /\ per_label_threshold \in ReqOverrides
    /\ max_len \in ReqMaxLens
    /\ stride_chars = 3
    /\ pc = "request"
    /\ i = 0
    /\ spans_all = <<>>
    /\ enc = <<>>
    /\ result = <<>>
    /\ path = "none"
    /\ allO = TRUE
    /\ ent = NoEnt
    /\ calls = <<>>
    /\ seen = {}
    /\ decoded = {}
    /\ env = ServingEnv
    /\ labels = LABELS
    /\ tokcfg = NoTruncation
    /\ peer = NoPeer

\* The request model refuses the request (a 422 response).
RejectRequest ==
    /\ pc = "request"
    /\ ~ValidReq(threshold)
    /\ pc' = "rejected"
    /\ UNCHANGED <<env, labels, peer, ent, text, threshold, per_label_threshold,
                   max_len, stride_chars, tokw, i, spans_all, enc, result, path,
                   allO, calls, seen, decoded, tokcfg>>

\* lines 186-187: the request passed validation; detect is called.
AcceptRequest ==
    /\ pc = "request"
    /\ ValidReq(threshold)
    /\ pc' = "start"
    /\ UNCHANGED <<env, labels, peer, ent, text, threshold, per_label_threshold,
                   max_len, stride_chars, tokw, i, spans_all, enc, result, path,
                   allO, calls, seen, decoded, tokcfg>>

\* lines 48-54: the tokenizer raises on a max_length below its special tokens.
TokenizerError ==
    /\ pc = "chunk"
    /\ i < Len(text)
    /\ max_len < 2
    /\ pc' = "error"
    /\ UNCHANGED <<env, labels, peer, ent, text, threshold, per_label_threshold,
                   max_len, stride_chars, tokw, i, spans_all, enc, result, path,
                   allO, calls, seen, decoded, tokcfg>>

NextRequest ==
    \/ RejectRequest \/ AcceptRequest \/ FastPath \/ BeginChunked
    \/ DecodeWindow \/ TokenizerError \/ MergeSpans

SpecRequest == InitRequest /\ [][NextRequest]_vars

(***************************************************************************)
(* The thresholds: detect on a short text (the fast path's decode_chunk)   *)
(* for a vocabulary with an organization type, several default thresholds  *)
(* and caller overrides, and at most MaxThrToks one-character tokens of    *)
(* any label at confidences on both sides of every threshold.              *)
(***************************************************************************)
MaxThrToks == 2

ThrThresholds == {50, 65, 80}

ThrOverrides ==
    {EmptyMap, [k \in {"ADDR"} |-> 60], [k \in {"ADDR"} |-> 75],
     [k \in {"ORG"} |-> 60], [k \in {"NAME"} |-> 75]}

ThrConfs == {55, 68, 72, 78}

ThrPreds ==
    {[lab |-> "O", p |-> 90]} \cup
    {[lab |-> ConfigLabels[k], p |-> q] : k \in 2..Len(ConfigLabels), q \in ThrConfs}

InitThreshold ==
    /\ text = DecText
    /\ threshold \in ThrThresholds
    /\ per_label_threshold \in ThrOverrides
    /\ max_len = MaxThrToks + 2
    /\ stride_chars = 2
    /\ tokw = 1
    /\ pc = "decode"
    /\ i = 0
    /\ spans_all = <<>>
    /\ \E n \in 0..MaxThrToks :
          \E items \in [1..n -> {"next1"} \X ThrPreds] : enc = Place(items, 0)
    /\ result = <<>>
    /\ path = "none"
    /\ allO = TRUE
    /\ ent = NoEnt
    /\ calls = <<>>
    /\ seen = {}
    /\ decoded = {}
    /\ env = ServingEnv
    /\ labels = ConfigLabels
    /\ tokcfg = NoTruncation
    /\ peer = NoPeer

NextThreshold == DecodeChunk

SpecThreshold == InitThreshold /\ [][NextThreshold]_vars

(***************************************************************************)
(* Startup, lines 11-39: the module's top-level code, run once on import.  *)
(* env is what it finds on disk: the folder, model.onnx (missing, corrupt  *)
(* or ok), config.json (missing, malformed or ok), the id2label entry of   *)
(* config.json (a mapping with keys "0".."n-1", a mapping with a key       *)
(* missing, a list, absent, or a value of another type) and the tokenizer  *)
(* files.  An exception ends the import: pc = "failed".                    *)
(***************************************************************************)
StartupEnvs ==
    {e \in [folder : BOOLEAN, onnx : {"missing", "corrupt", "ok"},
            config : {"missing", "malformed", "ok"},
            id2label : {"dict", "dict_gap", "list", "absent", "other"},
            tokenizer : BOOLEAN] :
        /\ ~e.folder => (e.onnx = "missing" /\ e.config = "missing" /\ ~e.tokenizer)
        /\ e.config # "ok" => e.id2label = "absent"}

InitStartup ==
    /\ env \in StartupEnvs
    /\ labels = <<>>
    /\ pc = "boot"
    /\ text = <<>>
    /\ threshold = 65
    /\ per_label_threshold = EmptyMap
    /\ max_len = 4
    /\ stride_chars = 3
    /\ tokw = 1
    /\ i = 0
    /\ spans_all = <<>>
    /\ enc = <<>>
    /\ result = <<>>
    /\ path = "none"
    /\ allO = TRUE
    /\ ent = NoEnt
    /\ calls = <<>>
    /\ seen = {}
    /\ decoded = {}
    /\ tokcfg = NoTruncation
    /\ peer = NoPeer

\* A step of startup from pc = from: it raises unless ok, else goes on to to.
StartupStep(from, ok, to) ==
    /\ pc = from
    /\ pc' = IF ok THEN to ELSE "failed"
    /\ UNCHANGED <<env, labels, peer, ent, text, threshold, per_label_threshold,
                   max_len, stride_chars, tokw, i, spans_all, enc, result, path,
                   allO, calls, seen, decoded, tokcfg>>

\* lines 15-16
CheckFolder == StartupStep("boot", env.folder, "folder_ok")

\* lines 17-18
CheckModelFile == StartupStep("folder_ok", env.onnx # "missing", "onnx_found")

\* lines 19-20
CheckConfig == StartupStep("onnx_found", env.config # "missing", "config_found")

\* lines 22-23: json.load raises on a malformed file
LoadConfig == StartupStep("config_found", env.config = "ok", "config_loaded")

\* lines 25-31: a mapping is read by its keys "0".."n-1" (a KeyError when one
\* is missing), a list is taken as it is, anything else gives the fallback.
LoadLabels ==
    /\ pc = "config_loaded"
    /\ IF env.id2label = "dict_gap"
       THEN pc' = "failed" /\ labels' = labels
       ELSE /\ pc' = "labels_loaded"
            /\ labels' = IF env.id2label \in {"dict", "list"}
                          THEN ConfigLabels ELSE LABELS
    /\ UNCHANGED <<env, peer, ent, text, threshold, per_label_threshold,
                   max_len, stride_chars, tokw, i, spans_all, enc, result, path,
                   allO, calls, seen, decoded, tokcfg>>

\* line 33
LoadTokenizer == StartupStep("labels_loaded", env.tokenizer, "tok_loaded")

\* lines 35-39: the session is created; the app is defined and serves
LoadSession == StartupStep("tok_loaded", env.onnx = "ok", "serving")

NextStartup ==
    \/ CheckFolder \/ CheckModelFile \/ CheckConfig \/ LoadConfig
    \/ LoadLabels \/ LoadTokenizer \/ LoadSession

SpecStartup == InitStartup /\ [][NextStartup]_vars

(***************************************************************************)
(* Two requests in flight.  detect_endpoint is a plain def, which the      *)
(* server runs on worker threads, and nothing in the source serializes the *)
(* calls of tok.  The request that runs holds the request variables, the   *)
(* other one waits in peer, and Switch hands over.  A call of tok is two   *)
(* steps, as in the fast tokenizer (return_offsets_mapping needs one): the *)
(* call's truncation arguments are set on the shared tokenizer, then the   *)
(* text is encoded with the truncation the tokenizer holds.  The model is  *)
(* a fixed function of the token, the same for both requests.              *)
(***************************************************************************)
ConTexts == {<<"a", "b", "c", "d">>, <<"a", "b", " ", "c", "d", "a">>}

ConMaxLens == {3, 6}

\* The label and confidence the model gives a token, by its first character.
FixedPred(ch) ==
    CASE ch = "a" -> [lab |-> "B-NAME", p |-> 90]
      [] ch = "b" -> [lab |-> "I-NAME", p |-> 90]
      [] ch = "c" -> [lab |-> "B-ADDR", p |-> 90]
      [] ch = "d" -> [lab |-> "I-ADDR", p |-> 90]
      [] OTHER -> [lab |-> "O", p |-> 90]

\* The tokens of piece under the truncation cfg, labelled by the fixed model.
FixedEncoding(piece, cfg, w) ==
    LET offs == IF cfg.on THEN OffsetMapping(piece, cfg.max, w)
                ELSE OffsetMapping(piece, Len(piece) + 2, w)
    IN  [k \in 1..Len(offs) |->
            IF k = 1 \/ k = Len(offs) THEN Tok(offs[k], FixedPred(""))
            ELSE Tok(offs[k], FixedPred(piece[offs[k].s + 1]))]

\* The variables of the request that runs, as a record.
Running ==
    [pc |-> pc, text |-> text, threshold |-> threshold,
     per_label_threshold |-> per_label_threshold, max_len |-> max_len,
     stride_chars |-> stride_chars, i |-> i, spans_all |-> spans_all,
     enc |-> enc, result |-> result, path |-> path, allO |-> allO,
     calls |-> calls, seen |-> seen, decoded |-> decoded]

\* A request as it enters detect.
NewRequest(t, m) ==
    [pc |-> "start", text |-> t, threshold |-> 65,
     per_label_threshold |-> EmptyMap, max_len |-> m, stride_chars |-> 3,
     i |-> 0, spans_all |-> <<>>, enc |-> <<>>, result |-> <<>>,
     path |-> "none", allO |-> TRUE, calls |-> <<>>, seen |-> {}, decoded |-> {}]

InitConcurrent ==
    /\ tokw = 1
    /\ text \in ConTexts
    /\ max_len \in ConMaxLens
    /\ threshold = 65
    /\ per_label_threshold = EmptyMap
    /\ stride_chars = 3
    /\ pc = "start"
    /\ i = 0
    /\ spans_all = <<>>
    /\ enc = <<>>
    /\ result = <<>>
    /\ path = "none"
    /\ allO = TRUE
    /\ ent = NoEnt
    /\ calls = <<>>
    /\ seen = {}
    /\ decoded = {}
    /\ env = ServingEnv
    /\ labels = LABELS
    /\ tokcfg = NoTruncation
    /\ peer \in {NewRequest(t, m) : t \in ConTexts, m \in ConMaxLens}

\* The scheduler runs the other request.
Switch ==
    /\ peer.pc # "none"
    /\ peer' = Running
    /\ pc' = peer.pc
    /\ text' = peer.text
    /\ threshold' = peer.threshold
    /\ per_label_threshold' = peer.per_label_threshold
    /\ max_len' = peer.max_len
    /\ stride_chars' = peer.stride_chars
    /\ i' = peer.i
    /\ spans_all' = peer.spans_all
    /\ enc' = peer.enc
    /\ result' = peer.result
    /\ path' = peer.path
    /\ allO' = peer.allO
    /\ calls' = peer.calls
    /\ seen' = peer.seen
    /\ decoded' = peer.decoded
    /\ UNCHANGED <<env, labels, ent, tokw, tokcfg>>

\* line 119, tok(text): the call carries no truncation
CountConfigure ==
    /\ pc = "start"
    /\ tokcfg' = NoTruncation
    /\ pc' = "count"
    /\ UNCHANGED <<env, labels, peer, ent, text, threshold, per_label_threshold,
                   max_len, stride_chars, tokw, i, spans_all, enc, result, path,
                   allO, calls, seen, decoded>>

\* lines 119-126: the text is encoded and its tokens counted; the path is chosen
CountTokens ==
    /\ pc = "count"
    /\ IF Len(FixedEncoding(text, tokcfg, tokw)) <= max_len
       THEN pc' = "fast" /\ path' = "fast"
       ELSE pc' = "chunk" /\ path' = "chunked"
    /\ i' = 0
    /\ spans_all' = <<>>
    /\ UNCHANGED <<env, labels, peer, ent, text, threshold, per_label_threshold,
                   max_len, stride_chars, tokw, enc, result, allO, calls, seen,
                   decoded, tokcfg>>

\* lines 48-54, tok(piece, truncation=True, max_length=max_len): the call's
\* truncation is set
EncodeConfigure ==
    /\ pc = "fast" \/ (pc = "chunk" /\ i < Len(text))
    /\ tokcfg' = Truncation(max_len)
    /\ pc' = IF pc = "fast" THEN "fast_enc" ELSE "chunk_enc"
    /\ UNCHANGED <<env, labels, peer, ent, text, threshold, per_label_threshold,
                   max_len, stride_chars, tokw, i, spans_all, enc, result, path,
                   allO, calls, seen, decoded>>

\* lines 48-109 and 120: the fast path's decode_chunk, from the encoding on
DecodeFastShared ==
    /\ pc = "fast_enc"
    /\ LET toks == FixedEncoding(text, tokcfg, tokw)
           per_type == PerType(threshold, per_label_threshold)
       IN  /\ result' = DecodeTokens(text, toks, threshold, per_type)
           /\ enc' = toks
           /\ allO' = (allO /\ AllLabelledO(toks))
           /\ seen' = seen \cup QualifyingTokens(toks, 0, threshold, per_type)
           /\ decoded' = decoded \cup DecodedChars(toks, 0)
    /\ calls' = Append(calls, DecodeCall(0, Len(text)))
    /\ pc' = "done"
    /\ UNCHANGED <<env, labels, peer, ent, text, threshold, per_label_threshold,
                   max_len, stride_chars, tokw, i, spans_all, path, tokcfg>>

\* lines 48-109 and 128-136: a window's decode_chunk, from the encoding on
DecodeWindowShared ==
    /\ pc = "chunk_enc"
    /\ LET piece == Slice(text, i, i + CHUNK)
           toks == FixedEncoding(piece, tokcfg, tokw)
           per_type == PerType(threshold, per_label_threshold)
           spans == DecodeTokens(piece, toks, threshold, per_type)
       IN  /\ spans_all' = spans_all \o
                 [k \in 1..Len(spans) |-> Shift(spans[k], i, text)]
           /\ enc' = toks
           /\ allO' = (allO /\ AllLabelledO(toks))
           /\ seen' = seen \cup QualifyingTokens(toks, i, threshold, per_type)
           /\ decoded' = decoded \cup DecodedChars(toks, i)
           /\ calls' = Append(calls, DecodeCall(i, Len(piece)))
    /\ i' = i + Step(stride_chars)
    /\ pc' = "chunk"
    /\ UNCHANGED <<env, labels, peer, ent, text, threshold, per_label_threshold,
                   max_len, stride_chars, tokw, result, path, tokcfg>>

NextConcurrent ==
    \/ Switch \/ CountConfigure \/ CountTokens \/ EncodeConfigure
    \/ DecodeFastShared \/ DecodeWindowShared \/ MergeSpans

SpecConcurrent == InitConcurrent /\ [][NextConcurrent]_vars

(***************************************************************************)
(* Properties.                                                             *)
(***************************************************************************)
\* a precedes b in (start, end) order
Precedes(a, b) == a.start < b.start \/ (a.start = b.start /\ a.end <= b.end)

\* Two spans of L with one label, the later one starting before the earlier
\* one ends.
SameLabelOverlap(L) ==
    \E j, k \in 1..Len(L) :
        /\ j # k
        /\ L[j].label = L[k].label
        /\ Precedes(L[j], L[k])
        /\ L[k].start < L[j].end

\* Two spans of L with one label that overlap or touch.
SameLabelTouch(L) ==
    \E j, k \in 1..Len(L) :
        /\ j # k
        /\ L[j].label = L[k].label
        /\ L[j].start <= L[k].start
        /\ L[k].start <= L[j].end

\* C1: the list detect returns, on the fast path or the chunked path, holds no
\* two spans of one label that overlap (b.start < a.end for a before b).
C1_NoSameLabelOverlap == pc = "done" => ~SameLabelOverlap(result)

\* C2: the Span Merger's output, for any combined list, holds no two spans of
\* one label that overlap or touch.
C2_MergerNoTouch == pc = "done" => ~SameLabelTouch(result)

SingleLabel(L) == \A j, k \in 1..Len(L) : L[j].label = L[k].label

Covers(o, sp) == o.label = sp.label /\ o.start <= sp.start /\ sp.end <= o.end

\* The input spans that lie inside output span o.
Inside(o, L) == {j \in 1..Len(L) : Covers(o, L[j])}

\* o is one connected piece of the union of the closed intervals of L: its
\* ends are ends of input spans and every unit step of it lies in an input.
Connected(o, L) ==
    /\ \E j \in Inside(o, L) : L[j].start = o.start
    /\ \E j \in Inside(o, L) : L[j].end = o.end
    /\ \A x \in o.start..(o.end - 1) :
          \E j \in Inside(o, L) : L[j].start <= x /\ x + 1 <= L[j].end

MaxScore(o, L) ==
    /\ \E j \in Inside(o, L) : L[j].score = o.score
    /\ \A j \in Inside(o, L) : L[j].score <= o.score

\* C7: for a combined list of one label the Span Merger returns the maximal
\* connected intervals of the union of the closed intervals [start, end] of the
\* input, one span each, with the maximum score of the spans it covers.
C7_SingleLabelComponents ==
    (pc = "done" /\ SingleLabel(spans_all)) =>
        /\ \A j \in 1..Len(spans_all) :
              Cardinality({k \in 1..Len(result) : Covers(result[k], spans_all[j])}) = 1
        /\ \A k \in 1..Len(result) :
              Connected(result[k], spans_all) /\ MaxScore(result[k], spans_all)
        /\ ~SameLabelTouch(result)

\* The example of the specification, scaled: ADDR (0,2) at 0.70 and ADDR (1,3)
\* at 0.75 give the single span (0,3) at 0.75.
C7_Witness ==
    /\ pc = "done"
    /\ spans_all = <<[start |-> 0, end |-> 2, label |-> "ADDR", score |-> 70,
                      text |-> <<"a", "b">>],
                     [start |-> 1, end |-> 3, label |-> "ADDR", score |-> 75,
                      text |-> <<"b", "c">>]>>
    /\ result = <<[start |-> 0, end |-> 3, label |-> "ADDR", score |-> 75,
                   text |-> <<"a", "b", "c">>]>>

\* C8: the Span Merger is idempotent: merging its own output returns that
\* output, the same spans in the same order with the same fields.
C8_MergerIdempotent ==
    (pc = "done" /\ path = "chunked") => Merger(text, result) = result

\* A merge of two labels in which a span was absorbed and a span of the other
\* label was kept.
C8_Witness ==
    /\ pc = "done"
    /\ ~SingleLabel(spans_all)
    /\ Len(result) >= 2
    /\ Len(result) < Len(spans_all)
    /\ \E k \in 1..Len(result) : \A j \in 1..Len(spans_all) : result[k] # spans_all[j]

(***************************************************************************)
(* The Window Decoder's claims, stated on the tokens of enc.               *)
(***************************************************************************)
EffThr(lab) == Get(PerType(threshold, per_label_threshold), TypOf(lab), threshold)

Content(k) == ContentTok(enc[k])

\* a content token with a non-O label at or above its type's threshold
QualTok(k) == Content(k) /\ enc[k].lab # "O" /\ enc[k].p >= EffThr(enc[k].lab)

\* a content token with a non-O label below its type's threshold
SubThr(k) == Content(k) /\ enc[k].lab # "O" /\ enc[k].p < EffThr(enc[k].lab)

\* the next and the previous content token of token k (0: none)
NextContent(k) ==
    LET later == {j \in (k + 1)..Len(enc) : Content(j)}
    IN  IF later = {} THEN 0 ELSE CHOOSE j \in later : \A m \in later : j <= m

PrevContent(k) ==
    LET earlier == {j \in 1..(k - 1) : Content(j)}
    IN  IF earlier = {} THEN 0 ELSE CHOOSE j \in earlier : \A m \in earlier : j >= m

\* the decoder's loop state after the first k tokens
StateAfter(k) ==
    DecodeLoop([cur |-> NoSpan, spans |-> <<>>], SubSeq(enc, 1, k), threshold,
               PerType(threshold, per_label_threshold))

\* C5: a non-O token below the threshold of its type opens no span, closes the
\* open span and lies in no emitted span; a directly following token of another
\* type at or above its own threshold still gets a span starting at its start.
C5_SubThresholdGating ==
    pc = "done" =>
        \A k \in 1..Len(enc) :
            SubThr(k) =>
                /\ StateAfter(k).cur = NoSpan
                /\ \A r \in 1..Len(result) :
                      ~(result[r].start <= enc[k].s /\ enc[k].e <= result[r].end)
                /\ LET j == NextContent(k)
                   IN  (j # 0 /\ QualTok(j) /\ TypOf(enc[j].lab) # TypOf(enc[k].lab))
                       => \E r \in 1..Len(result) :
                              /\ result[r].start = enc[j].s
                              /\ result[r].label = TypOf(enc[j].lab)

\* A sub-threshold token that met an open span and is followed by a qualifying
\* token of another type.
C5_Witness ==
    /\ pc = "done"
    /\ \E k \in 2..Len(enc) :
          /\ SubThr(k)
          /\ StateAfter(k - 1).cur # NoSpan
          /\ NextContent(k) # 0
          /\ QualTok(NextContent(k))
          /\ TypOf(enc[NextContent(k)].lab) # TypOf(enc[k].lab)

\* tokens a..b hold a maximal run: a qualifying token that starts a span (a B-
\* label, or an I- label that continues no qualifying token of its type), then
\* only qualifying I- tokens of that type, up to a token that is none.
IsRun(a, b) ==
    /\ a <= b
    /\ QualTok(a)
    /\ Content(b)
    /\ \/ StartsWithB(enc[a].lab)
       \/ PrevContent(a) = 0
       \/ ~(QualTok(PrevContent(a)) /\
            TypOf(enc[PrevContent(a)].lab) = TypOf(enc[a].lab))
    /\ \A j \in (a + 1)..b :
          Content(j) => /\ QualTok(j)
                        /\ ~StartsWithB(enc[j].lab)
                        /\ TypOf(enc[j].lab) = TypOf(enc[a].lab)
    /\ LET n == NextContent(b)
       IN  \/ n = 0
           \/ ~(QualTok(n) /\ ~StartsWithB(enc[n].lab) /\
                TypOf(enc[n].lab) = TypOf(enc[a].lab))

RunTokens(a, b) == {j \in a..b : Content(j)}

\* C6: a maximal run yields exactly one span: its label is the run's type, its
\* start the first token's start, its end the greatest token end and its score
\* the greatest token confidence of the run.
C6_RunYieldsOneSpan ==
    pc = "done" =>
        \A a, b \in 1..Len(enc) :
            IsRun(a, b) =>
                LET hits == {r \in 1..Len(result) :
                                \E j \in RunTokens(a, b) : result[r].start = enc[j].s}
                IN  /\ Cardinality(hits) = 1
                    /\ \A r \in hits :
                          /\ result[r].label = TypOf(enc[a].lab)
                          /\ result[r].start = enc[a].s
                          /\ \E j \in RunTokens(a, b) : result[r].end = enc[j].e
                          /\ \A j \in RunTokens(a, b) : result[r].end >= enc[j].e
                          /\ \E j \in RunTokens(a, b) : result[r].score = enc[j].p
                          /\ \A j \in RunTokens(a, b) : result[r].score >= enc[j].p

\* A run of two tokens of different confidence, the first the greater.
C6_Witness ==
    /\ pc = "done"
    /\ \E a, b \in 1..Len(enc) :
          /\ IsRun(a, b)
          /\ a < b
          /\ enc[a].p > enc[b].p
          /\ \E r \in 1..Len(result) :
                result[r].start = enc[a].s /\ result[r].end = enc[b].e

\* C10: a qualifying I-T token that meets no open span, or an open span of
\* another type, opens a span of type T at its own start.
C10_OrphanIStarts ==
    pc = "done" =>
        \A k \in 1..Len(enc) :
            (/\ QualTok(k)
             /\ ~StartsWithB(enc[k].lab)
             /\ \/ StateAfter(k - 1).cur = NoSpan
                \/ StateAfter(k - 1).cur.label # TypOf(enc[k].lab))
            => /\ StateAfter(k).cur =
                     [start |-> enc[k].s, end |-> enc[k].e,
                      label |-> TypOf(enc[k].lab), score |-> enc[k].p]
               /\ \E r \in 1..Len(result) :
                     /\ result[r].start = enc[k].s
                     /\ result[r].label = TypOf(enc[k].lab)

\* O, then I-NAME (no span open), then I-ADDR (a NAME span open): two spans.
C10_Witness ==
    /\ pc = "done"
    /\ Len(enc) = 3
    /\ Content(1) /\ enc[1].lab = "O"
    /\ QualTok(2) /\ enc[2].lab = "I-NAME"
    /\ QualTok(3) /\ enc[3].lab = "I-ADDR"
    /\ Len(result) = 2
    /\ result[1].label = "NAME" /\ result[1].start = enc[2].s
    /\ result[2].label = "ADDR" /\ result[2].start = enc[3].s

\* C9: when every content token of every decoded window is labelled O, the
\* decoder and detect, on either path, return the empty list.
C9_AllOEmpty == (pc = "done" /\ allO) => result = <<>>

\* A chunked run over at least two windows whose tokens were all labelled O.
C9_Witness ==
    /\ pc = "done"
    /\ allO
    /\ path = "chunked"
    /\ Len(text) > Step(stride_chars)
    /\ result = <<>>

\* the spans of the result of ent's type that intersect [ent.s, ent.e)
EntityHits ==
    {r \in 1..Len(result) :
        /\ result[r].label = ent.typ
        /\ result[r].start < ent.e
        /\ ent.s < result[r].end}

\* C3: on the chunked path an entity that crosses the end of a window, is no
\* longer than the overlap and is labelled in every window appears as exactly
\* one span of its label, from its start to its end.
C3_BoundaryEntityOnce ==
    (pc = "done" /\ path = "chunked") =>
        /\ Cardinality(EntityHits) = 1
        /\ \A r \in EntityHits :
              result[r].start = ent.s /\ result[r].end = ent.e

\* C4: every span detect returns carries the text of the input between its
\* final start and end.
C4_TextIsSlice ==
    pc = "done" =>
        \A r \in 1..Len(result) :
            result[r].text = Slice(text, result[r].start, result[r].end)

\* A chunked run that returns a span merged from a later window's spans.
C4_Witness ==
    /\ pc = "done"
    /\ path = "chunked"
    /\ \E r \in 1..Len(result) :
          /\ result[r].start > 0
          /\ result[r].text # <<>>
          /\ \A k \in 1..Len(spans_all) : spans_all[k] # result[r]

(***************************************************************************)
(* The threshold map.                                                      *)
(***************************************************************************)
\* the threshold the claim gives to a type: the caller's override when there
\* is one, else max(default, 0.70) for ADDR, else the default
ClaimedThr(typ) ==
    IF typ \in DOMAIN per_label_threshold THEN per_label_threshold[typ]
    ELSE IF typ = "ADDR" THEN Max(threshold, 70)
    ELSE threshold

\* token k lies in a returned span of its type
InSpan(k) ==
    \E r \in 1..Len(result) :
        /\ result[r].label = TypOf(enc[k].lab)
        /\ result[r].start <= enc[k].s
        /\ enc[k].e <= result[r].end

\* C11: a non-O content token gets into a span exactly when its confidence is
\* at least the caller's override for its type when there is one (also below
\* 0.70 for ADDR), else max(default, 0.70) for ADDR, else the default.
C11_ThresholdMap ==
    pc = "done" =>
        \A k \in 1..Len(enc) :
            (Content(k) /\ enc[k].lab # "O") =>
                (InSpan(k) <=> enc[k].p >= ClaimedThr(TypOf(enc[k].lab)))

\* An ADDR override below the floor lets through an ADDR token under 0.70,
\* next to a token of a type the map does not hold, gated by the default.
C11_Witness ==
    /\ pc = "done"
    /\ "ADDR" \in DOMAIN per_label_threshold
    /\ per_label_threshold["ADDR"] < 70
    /\ \E k, j \in 1..Len(enc) :
          /\ TypOf(enc[k].lab) = "ADDR" /\ enc[k].p < 70 /\ InSpan(k)
          /\ TypOf(enc[j].lab) = "ORG" /\ enc[j].p < threshold /\ ~InSpan(j)

\* C12: with no caller override for ORG, no returned ORG span is built only
\* from tokens below 0.75: its score, the greatest confidence of its tokens,
\* is at least 0.75.
C12_OrgFloor ==
    (pc = "done" /\ "ORG" \notin DOMAIN per_label_threshold) =>
        \A r \in 1..Len(result) :
            result[r].label = "ORG" => result[r].score >= 75

(***************************************************************************)
(* The endpoint.                                                           *)
(***************************************************************************)
\* a request the claim calls invalid
InvalidRequest ==
    \/ max_len <= 0
    \/ threshold < 0 \/ threshold > 100
    \/ \E k \in DOMAIN per_label_threshold :
          per_label_threshold[k] < 0 \/ per_label_threshold[k] > 100

\* C13: a request with max_tokens <= 0, a default threshold outside [0,1] or a
\* per-type threshold outside [0,1] is rejected before any tokenizer, model or
\* decoder call: it never gets past validation and no list is returned for it.
C13_InvalidRejected ==
    InvalidRequest =>
        /\ pc \in {"request", "rejected"}
        /\ calls = <<>>
        /\ result = <<>>

(***************************************************************************)
(* The spans of detect.                                                    *)
(***************************************************************************)
WellFormed(sp) ==
    /\ 0 <= sp.start
    /\ sp.start < sp.end
    /\ sp.end <= Len(text)
    /\ Len(sp.text) >= 1

\* C14: every span of detect, as shifted to absolute offsets in the combined
\* list and as returned by the fast path or the merge, has 0 <= start < end <=
\* len(text) and a text of at least one character.
C14_SpanWellFormed ==
    /\ \A k \in 1..Len(spans_all) : WellFormed(spans_all[k])
    /\ \A r \in 1..Len(result) : WellFormed(result[r])

\* A chunked run that returns a span ending at the end of the text which the
\* merge built from the spans of several windows, the last not at offset 0.
C14_Witness ==
    /\ pc = "done"
    /\ path = "chunked"
    /\ \E r \in 1..Len(result) :
          /\ result[r].end = Len(text)
          /\ result[r].end - result[r].start >= 2
          /\ \A k \in 1..Len(spans_all) : spans_all[k] # result[r]
          /\ \E k \in 1..Len(spans_all) :
                spans_all[k].start > result[r].start /\ spans_all[k].end = Len(text)

(***************************************************************************)
(* The Window Decoder: B- labels and skipped tokens.                       *)
(***************************************************************************)
\* C15: a qualifying B- token always breaks: a span of its type starts at its
\* start, no returned span reaches over its start, and the span that was open
\* before it is returned as it stood, also when it has the token's type.
C15_BAlwaysBreaks ==
    pc = "done" =>
        \A k \in 1..Len(enc) :
            (QualTok(k) /\ StartsWithB(enc[k].lab)) =>
                /\ \E r \in 1..Len(result) :
                      /\ result[r].start = enc[k].s
                      /\ result[r].label = TypOf(enc[k].lab)
                /\ \A r \in 1..Len(result) :
                      ~(result[r].start < enc[k].s /\ enc[k].s < result[r].end)
                /\ \A r \in 1..Len(result) :
                      ~(result[r].start < enc[k].s /\ enc[k].e <= result[r].end)
                /\ LET open == StateAfter(k - 1).cur
                   IN  open # NoSpan =>
                          \E r \in 1..Len(result) :
                              /\ result[r].start = open.start
                              /\ result[r].end = open.end
                              /\ result[r].label = open.label
                              /\ result[r].score = open.score

\* B-NAME, I-NAME, B-NAME, all qualifying and adjacent: two NAME spans, the
\* first over the first two tokens, the second over the third.
C15_Witness ==
    /\ pc = "done"
    /\ Len(enc) = 3
    /\ QualTok(1) /\ enc[1].lab = "B-NAME"
    /\ QualTok(2) /\ enc[2].lab = "I-NAME" /\ enc[2].s = enc[1].e
    /\ QualTok(3) /\ enc[3].lab = "B-NAME" /\ enc[3].s = enc[2].e
    /\ Len(result) = 2
    /\ result[1].label = "NAME" /\ result[1].start = enc[1].s /\ result[1].end = enc[2].e
    /\ result[2].label = "NAME" /\ result[2].start = enc[3].s /\ result[2].end = enc[3].e

\* C16: a token with offsets (0,0) or end <= start leaves the decoder's state
\* as it was, whatever its label and confidence, and the decoder returns what
\* it returns for the sequence without such tokens.
C16_SkippedTokensFrame ==
    pc = "done" =>
        /\ \A k \in 1..Len(enc) :
              ~Content(k) => StateAfter(k) = StateAfter(k - 1)
        /\ result = DecodeTokens(text, SelectSeq(enc, ContentTok), threshold,
                                  PerType(threshold, per_label_threshold))

\* A token with end <= start and a qualifying B- label between a qualifying
\* token and a qualifying I- token of its type: one span over both.
C16_Witness ==
    /\ pc = "done"
    /\ Len(enc) = 3
    /\ QualTok(1)
    /\ ~Content(2) /\ enc[2].e < enc[2].s
    /\ StartsWithB(enc[2].lab) /\ enc[2].p >= EffThr(enc[2].lab)
    /\ QualTok(3) /\ ~StartsWithB(enc[3].lab)
    /\ TypOf(enc[3].lab) = TypOf(enc[1].lab)
    /\ Len(result) = 1
    /\ result[1].start = enc[1].s /\ result[1].end = enc[3].e

(***************************************************************************)
(* The Span Merger and the labels.                                         *)
(***************************************************************************)
\* the input spans of label l
OfLabel(L, l) == {j \in 1..Len(L) : L[j].label = l}

\* o is built from the input spans A: it starts where one of them starts, none
\* starts before it, and it has their greatest end and their greatest score.
BuiltFrom(o, L, A) ==
    /\ A # {}
    /\ \E j \in A : L[j].start = o.start
    /\ \A j \in A : o.start <= L[j].start /\ L[j].end <= o.end /\ L[j].score <= o.score
    /\ \E j \in A : L[j].end = o.end
    /\ \E j \in A : L[j].score = o.score

\* two spans share a character
Overlapping(a, b) == a.start < b.end /\ b.start < a.end

\* C17: every span the Span Merger returns is built from input spans of its own
\* label only (the start of one, their greatest end and score); the returned
\* spans of a label are as many as or fewer than the input spans of that label;
\* and of two overlapping input spans of different labels each lies in a
\* returned span of its own label.
C17_LabelsNeverMerged ==
    (pc = "done" /\ path = "chunked") =>
        /\ \A r \in 1..Len(result) :
              \E A \in SUBSET OfLabel(spans_all, result[r].label) :
                  BuiltFrom(result[r], spans_all, A)
        /\ \A l \in Types :
              /\ Cardinality(OfLabel(result, l)) <= Cardinality(OfLabel(spans_all, l))
              /\ OfLabel(spans_all, l) # {} => OfLabel(result, l) # {}
        /\ \A j, k \in 1..Len(spans_all) :
              (spans_all[j].label # spans_all[k].label /\
               Overlapping(spans_all[j], spans_all[k]))
              => /\ \E r \in 1..Len(result) : Covers(result[r], spans_all[j])
                 /\ \E r \in 1..Len(result) : Covers(result[r], spans_all[k])

\* A NAME span and an ADDR span over the same characters, the ADDR span with
\* the greater score: both are returned, each with its own score.
C17_Witness ==
    /\ pc = "done"
    /\ Len(spans_all) = 2
    /\ spans_all[1].label = "NAME" /\ spans_all[2].label = "ADDR"
    /\ spans_all[1].start = spans_all[2].start
    /\ spans_all[1].end = spans_all[2].end
    /\ spans_all[1].score < spans_all[2].score
    /\ result = spans_all

(***************************************************************************)
(* The paths of detect and the window loop.                                *)
(***************************************************************************)
\* the number of tokens of the whole text: its offsets when nothing is cut
WholeTextTokens == Len(OffsetMapping(text, Len(text) + 2, tokw))

\* the step the claims give: max(CHUNK_CHARS - stride_chars, 1)
ClaimedStep == IF CHUNK - stride_chars >= 1 THEN CHUNK - stride_chars ELSE 1

\* the decode calls of the first n windows: at 0, step, 2*step, ..., each on
\* the CHUNK characters from its start, or those left
WindowCalls(n) ==
    [k \in 1..n |->
        DecodeCall((k - 1) * ClaimedStep,
                   Min(CHUNK, Len(text) - (k - 1) * ClaimedStep))]

\* the number of window starts below len(text)
WindowCount == (Len(text) + ClaimedStep - 1) \div ClaimedStep

\* C18: when the whole text has at most max_len tokens the decoder is called
\* once, on the whole text, and no merge runs; otherwise it is called once per
\* window in increasing order of window start and the merge runs once, after
\* the last window.
C18_PathByTokenCount ==
    /\ pc = "chunk" =>
          /\ WholeTextTokens > max_len
          /\ \E n \in 0..WindowCount : calls = WindowCalls(n) /\ i = n * ClaimedStep
    /\ pc = "done" =>
          IF WholeTextTokens <= max_len
          THEN path = "fast" /\ calls = <<DecodeCall(0, Len(text))>>
          ELSE /\ path = "chunked"
               /\ calls = WindowCalls(WindowCount) \o <<MergeCall(Len(spans_all))>>

\* A chunked run of at least three windows, the last shorter than CHUNK, with
\* spans to merge.
C18_Witness ==
    /\ pc = "done"
    /\ path = "chunked"
    /\ Len(calls) >= 4
    /\ calls[Len(calls) - 1].len < CHUNK
    /\ calls[Len(calls)].op = "merge"
    /\ calls[Len(calls)].len >= 2

\* the window loop has decoded the windows at 0, step, ..., i - step, all
\* below len(text), and has stopped at the first i >= len(text)
LoopProgress ==
    /\ ClaimedStep >= 1
    /\ pc \in {"chunk", "done"} =>
          /\ i % ClaimedStep = 0
          /\ i - ClaimedStep < Len(text)
          /\ LET n == i \div ClaimedStep
                 w == SelectSeq(calls, LAMBDA c : c.op = "decode")
             IN  /\ Len(w) = n
                 /\ \A k \in 1..n : w[k].at = (k - 1) * ClaimedStep
    /\ pc = "done" => i >= Len(text)

\* an iteration of the loop moves the window start up, by the step
LoopAdvances ==
    (pc = "chunk" /\ i < Len(text)) =>
        /\ pc' = "chunk"
        /\ i' = i + ClaimedStep
        /\ Len(text) - i' < Len(text) - i

\* at the first i >= len(text) the loop is left and detect returns
LoopExits == (pc = "chunk" /\ ~(i < Len(text))) => pc' = "done"

\* C19: the window loop terminates for every text and every stride_chars, also
\* stride_chars >= CHUNK: every iteration raises the window start by
\* max(CHUNK - stride, 1) >= 1, so len(text) - i falls; the windows decoded are
\* those at 0, step, 2*step, ... below len(text), at most len(text) of them;
\* and at the first i >= len(text) the loop is left.
C19_LoopTerminates == []LoopProgress /\ [][LoopAdvances /\ LoopExits]_vars

\* A run with stride_chars above CHUNK that decoded a window at every
\* character of a text longer than CHUNK - 1 and returned.
C19_Witness ==
    /\ pc = "done"
    /\ stride_chars > CHUNK
    /\ Len(text) >= CHUNK
    /\ Len(calls) = Len(text) + 1

(***************************************************************************)
(* Span boundaries.                                                        *)
(***************************************************************************)
\* sp starts at the start of a qualifying content token of its type and ends
\* at the end of one, both at absolute offsets, from the windows decoded
OnTokenBoundaries(sp) ==
    /\ \E q \in seen : q.typ = sp.label /\ q.s = sp.start
    /\ \E q \in seen : q.typ = sp.label /\ q.e = sp.end

\* sp has the start of a span of its label of the combined list, and the end
\* of one that starts no earlier
FromCombined(sp) ==
    /\ \E k \in 1..Len(spans_all) :
          /\ spans_all[k].label = sp.label
          /\ spans_all[k].start = sp.start
          /\ spans_all[k].end <= sp.end
    /\ \E k \in 1..Len(spans_all) :
          /\ spans_all[k].label = sp.label
          /\ spans_all[k].end = sp.end
          /\ spans_all[k].start >= sp.start

\* C20: every span of detect, in the combined list and as returned, starts at
\* the absolute start of a qualifying content token of its type and ends at the
\* absolute end of one; the merge keeps the start of a span of the combined
\* list and moves its end only to the end of another span of its label.
C20_TokenBoundaries ==
    /\ \A k \in 1..Len(spans_all) : OnTokenBoundaries(spans_all[k])
    /\ pc = "done" =>
          /\ \A r \in 1..Len(result) : OnTokenBoundaries(result[r])
          /\ path = "chunked" => \A r \in 1..Len(result) : FromCombined(result[r])

\* A returned span that is the span of no window and reaches over no single
\* token: its start and its end come from different tokens and spans.
C20_Witness ==
    /\ pc = "done"
    /\ path = "chunked"
    /\ \E r \in 1..Len(result) :
          /\ \A q \in seen : ~(q.s = result[r].start /\ q.e = result[r].end)
          /\ \A k \in 1..Len(spans_all) :
                ~(spans_all[k].start = result[r].start /\
                  spans_all[k].end = result[r].end)

(***************************************************************************)
(* Startup.                                                                *)
(***************************************************************************)
\* C21: startup reaches the serving state only if the model folder, the model
\* file and an id2label mapping in config.json were found: it never serves
\* with the guessed default label set.
C21_NoGuessedVocabulary ==
    pc = "serving" =>
        /\ env.folder
        /\ env.onnx # "missing"
        /\ env.config = "ok"
        /\ env.id2label \in {"dict", "list"}
        /\ labels = ConfigLabels

(***************************************************************************)
(* Requests in flight together.                                            *)
(***************************************************************************)
\* the combined list of the windows from i on, for a request that runs alone
RECURSIVE AloneWindows(_, _, _)
AloneWindows(r, w, at) ==
    IF ~(at < Len(r.text)) THEN <<>>
    ELSE LET piece == Slice(r.text, at, at + CHUNK)
             spans == DecodeTokens(piece,
                          FixedEncoding(piece, Truncation(r.max_len), w),
                          r.threshold,
                          PerType(r.threshold, r.per_label_threshold))
         IN  [k \in 1..Len(spans) |-> Shift(spans[k], at, r.text)]
             \o AloneWindows(r, w, at + Step(r.stride_chars))

\* what detect returns for request r when no other request runs
DetectAlone(r, w) ==
    IF Len(FixedEncoding(r.text, NoTruncation, w)) <= r.max_len
    THEN DecodeTokens(r.text, FixedEncoding(r.text, Truncation(r.max_len), w),
                      r.threshold, PerType(r.threshold, r.per_label_threshold))
    ELSE Merger(r.text, AloneWindows(r, w, 0))

\* C22: of two requests whose steps interleave in any order each returns the
\* list it returns when run alone, and the label vocabulary is not written.
C22_RequestsIsolated ==
    /\ labels = LABELS
    /\ pc = "done" => result = DetectAlone(Running, tokw)
    /\ peer.pc = "done" => peer.result = DetectAlone(peer, tokw)

(***************************************************************************)
(* The windows and the text.                                               *)
(***************************************************************************)
\* the decode_chunk calls of the run, in order
DecodeCalls == SelectSeq(calls, LAMBDA c : c.op = "decode")

\* C23: on the chunked path, for every stride_chars, every character offset
\* of the text lies in a decoded window [at, at + CHUNK), and each window
\* starts no later than where the one before it ends.
C23_WindowsCoverText ==
    (pc = "done" /\ path = "chunked") =>
        /\ \A x \in 0..(Len(text) - 1) :
              \E k \in 1..Len(DecodeCalls) :
                  DecodeCalls[k].at <= x /\ x < DecodeCalls[k].at + CHUNK
        /\ \A k \in 1..(Len(DecodeCalls) - 1) :
              DecodeCalls[k + 1].at <= DecodeCalls[k].at + CHUNK

\* C24: on the chunked path every content token of the text, that is every
\* character of the text that is not white space, is in the encoding of at
\* least one decoded window, truncation included.
C24_EveryTokenDecoded ==
    (pc = "done" /\ path = "chunked") =>
        \A x \in 0..(Len(text) - 1) : text[x + 1] # " " => x \in decoded

(***************************************************************************)
(* The two paths on one window.                                            *)
(***************************************************************************)
\* C25: on a chunked run of a single window the merge returns the window's
\* decoder output unchanged, so the spans the decoder separated stay apart.
C25_SingleWindowUnchanged ==
    (pc = "done" /\ path = "chunked" /\ Len(DecodeCalls) = 1) =>
        result = spans_all

(***************************************************************************)
(* The order of the returned list.                                         *)
(***************************************************************************)
\* L is in the order of (start, end)
Ordered(L) == \A k \in 1..(Len(L) - 1) : Precedes(L[k], L[k + 1])

\* C26: the list detect returns is in ascending order of (start, end), on
\* the chunked path after the merge and on the fast path.
C26_ResultOrdered == pc = "done" => Ordered(result)

\* a chunked run whose windows gave their spans out of order and whose
\* returned list holds a merged span followed by another span
C26_Witness ==
    /\ pc = "done"
    /\ path = "chunked"
    /\ ~Ordered(spans_all)
    /\ Len(result) >= 2
    /\ Len(result) < Len(spans_all)
    /\ \E k \in 1..(Len(result) - 1) :
           \A j \in 1..Len(spans_all) : spans_all[j] # result[k]

====
